---- MODULE Spec2Model ----
(***************************************************************************)
(* safe-json: validators of unknown JSON values.                            *)
(*                                                                         *)
(* A JavaScript value is a record                                          *)
(*   [t, v, ref, elems, props]                                             *)
(* t     : the kind of the value ("boolean", "number", "string", "null",   *)
(*         "undefined", "function", "array", "object")                     *)
(* v     : the text of a scalar ("12" for the number 12 and for the        *)
(*         string "12": the kinds differ, the text does not)               *)
(* ref   : for arrays and objects, who allocated it: "in" for a value of   *)
(*         the caller's input, "new" for one built by a validator          *)
(* elems : the elements of an array, in index order                        *)
(* props : the own properties of an object, in insertion order, each a     *)
(*         record [key, value]                                             *)
(*                                                                         *)
(* A validator is a record [kind, child, fields]: kind is the name of the  *)
(* Expect member that built it, child holds the one child validator of     *)
(* array/optional, fields holds the fields descriptor of object as the     *)
(* sequence of [key, validator] in the order the descriptor declares them. *)
(***************************************************************************)
EXTENDS Integers, Sequences, FiniteSets, TLC

VARIABLES validator, data, pc, op, calls, returned, answer, rendered, visits,
          kept, first, ncalls

vars ==
  <<validator, data, pc, op, calls, returned, answer, rendered, visits,
    kept, first, ncalls>>

(* ------------------------------ bounds -------------------------------- *)

\* longest input array
MaxLen == 2
\* most fields a fields descriptor declares
MaxFields == 2
\* most calls a caller makes one after the other
MaxCalls == 3

(* ------------------------------ values -------------------------------- *)

Scalar(t, v) == [t |-> t, v |-> v, ref |-> "", elems |-> <<>>, props |-> <<>>]

Undefined == Scalar("undefined", "")

Null == Scalar("null", "")

\* what a property inherited from Object.prototype / Array.prototype holds
Function == Scalar("function", "")

ArrayOf(ref, elems) ==
  [t |-> "array", v |-> "", ref |-> ref, elems |-> elems, props |-> <<>>]

ObjectOf(ref, props) ==
  [t |-> "object", v |-> "", ref |-> ref, elems |-> <<>>, props |-> props]

\* decimal text of a small natural number
NumStr(n) ==
  CASE n = 0 -> "0" [] n = 1 -> "1" [] n = 2 -> "2" [] n = 3 -> "3"
    [] n = 4 -> "4" [] OTHER -> "5"

\* the array index a property key denotes, -1 when the key is no array index
IndexOf(key) ==
  CASE key = "0" -> 0 [] key = "1" -> 1 [] key = "2" -> 2 [] key = "3" -> 3
    [] OTHER -> -1

\* the JavaScript typeof operator
TypeofJS(d) ==
  IF d.t \in {"array", "null", "object"} THEN "object" ELSE d.t

InstanceofArray(d) == d.t = "array"

typeOf(d) ==
  IF InstanceofArray(d) THEN "array"
  ELSE IF d = Null THEN "null"
  ELSE TypeofJS(d)

(* --------------------------- Result, Problem -------------------------- *)

pass(value) == [kind |-> "pass", value |-> value]

fail(reason) == [kind |-> "fail", reason |-> reason]

expectation(d) == [kind |-> "expectation", data |-> d]

problemWithField(d) == [kind |-> "field", data |-> d]

problemWithIndex(d) == [kind |-> "index", data |-> d]

\* Problem.toString with the inner problem put into the template as it is
toStringShallow(problem) ==
  CASE problem.kind = "expectation" ->
         "Expected " \o problem.data.expected \o ", got "
           \o problem.data.actual \o "."
    [] problem.kind = "field" ->
         "Problem with field \"" \o problem.data.field \o "\": "
           \o "[object Object]"
    [] problem.kind = "index" ->
         "Problem at index \"" \o NumStr(problem.data.index) \o "\": "
           \o "[object Object]"

RECURSIVE toString(_)
toString(problem) ==
  CASE problem.kind = "expectation" ->
         "Expected " \o problem.data.expected \o ", got "
           \o problem.data.actual \o "."
    [] problem.kind = "field" ->
         "Problem with field \"" \o problem.data.field \o "\": "
           \o toString(problem.data.problem)
    [] problem.kind = "index" ->
         "Problem at index \"" \o NumStr(problem.data.index) \o "\": "
           \o toString(problem.data.problem)

(* ------------------------- property access ---------------------------- *)

\* names every object inherits from Object.prototype (those the model uses)
InheritedKeys == {"constructor"}

KeysOf(props) == {props[i].key : i \in 1..Len(props)}

OwnValue(props, key) ==
  props[CHOOSE i \in 1..Len(props) : props[i].key = key].value

\* what reading a property of null or undefined ends in: the TypeError
\* thrown, which ends the call
TypeError == Scalar("TypeError", "")

\* data[key]: an own property, else what the prototype chain holds, else
\* undefined; null and undefined have no properties to read
GetProp(d, key) ==
  IF d \in {Null, Undefined} THEN TypeError
  ELSE IF InstanceofArray(d)
  THEN IF IndexOf(key) >= 0 /\ IndexOf(key) < Len(d.elems)
       THEN d.elems[IndexOf(key) + 1]
       ELSE IF key = "length" THEN Scalar("number", NumStr(Len(d.elems)))
       ELSE IF key \in InheritedKeys THEN Function
       ELSE Undefined
  ELSE IF key \in KeysOf(d.props) THEN OwnValue(d.props, key)
  ELSE IF key \in InheritedKeys THEN Function
  ELSE Undefined

\* obj[key] = value
SetProp(obj, key, value) ==
  IF key \in KeysOf(obj.props)
  THEN [obj EXCEPT !.props =
          [i \in 1..Len(obj.props) |->
             IF obj.props[i].key = key
             THEN [key |-> key, value |-> value] ELSE obj.props[i]]]
  ELSE [obj EXCEPT !.props = Append(obj.props, [key |-> key, value |-> value])]

\* the keys of a fields descriptor in the order `for (var key in fields)`
\* visits them: array-index keys in ascending numeric order, then the other
\* keys in the order the descriptor declares them
RECURSIVE IndexKeysFrom(_, _)
IndexKeysFrom(fields, n) ==
  IF \A i \in 1..Len(fields) : IndexOf(fields[i].key) < n
  THEN <<>>
  ELSE LET hit == {i \in 1..Len(fields) : IndexOf(fields[i].key) = n}
       IN  (IF hit = {} THEN <<>> ELSE <<fields[CHOOSE i \in hit : TRUE].key>>)
           \o IndexKeysFrom(fields, n + 1)

RECURSIVE NamedKeysFrom(_, _)
NamedKeysFrom(fields, i) ==
  IF i > Len(fields) THEN <<>>
  ELSE (IF IndexOf(fields[i].key) < 0 THEN <<fields[i].key>> ELSE <<>>)
       \o NamedKeysFrom(fields, i + 1)

\* the keys in the order the descriptor declares them, whatever they are
DeclaredKeys(fields) == [i \in 1..Len(fields) |-> fields[i].key]

ForInKeys(fields) == IndexKeysFrom(fields, 0) \o NamedKeysFrom(fields, 1)

\* fields[key]
FieldValidator(fields, key) ==
  fields[CHOOSE i \in 1..Len(fields) : fields[i].key = key].validator

(* ----------------------------- validators ----------------------------- *)

Validator(kind, child, fields) ==
  [kind |-> kind, child |-> child, fields |-> fields]

ExpectBoolean == Validator("boolean", <<>>, <<>>)

ExpectNumber == Validator("number", <<>>, <<>>)

ExpectString == Validator("string", <<>>, <<>>)

ExpectNull == Validator("null", <<>>, <<>>)

ExpectObject(fields) == Validator("object", <<>>, fields)

ExpectArray(v) == Validator("array", <<v>>, <<>>)

ExpectOptional(v) == Validator("optional", <<v>>, <<>>)

RECURSIVE toResult(_, _)

\* run with the two `return`s of the switch left out: the 'pass' case falls
\* through into the 'fail' case
runFallThrough(V, d) ==
  LET result == toResult(V, d)
  IN  CASE result.kind = "pass" ->
             <<[handler |-> "onPass", arg |-> result.value],
               [handler |-> "onFail", arg |-> Undefined]>>
        [] result.kind = "fail" ->
             <<[handler |-> "onFail", arg |-> result.reason]>>

\* the handlers validator.run(data, handlers) invokes, in order, each with
\* its argument
run(V, d) ==
  LET result == toResult(V, d)
  IN  CASE result.kind = "pass" ->
             <<[handler |-> "onPass", arg |-> result.value]>>
        [] result.kind = "fail" ->
             <<[handler |-> "onFail", arg |-> result.reason]>>

worksWith(V, d) == toResult(V, d).kind = "pass"

expecting(expected, d) ==
  IF TypeofJS(d) = expected
  THEN pass(d)
  ELSE fail(expectation([actual |-> typeOf(d), expected |-> expected]))

\* expectingNull with `data == null` for `data === null`
expectingNullLoose(d) ==
  IF d \in {Null, Undefined}
  THEN pass(d)
  ELSE fail(expectation([actual |-> typeOf(d), expected |-> "null"]))

expectingNull(d) ==
  IF d = Null
  THEN pass(d)
  ELSE fail(expectation([actual |-> typeOf(d), expected |-> "null"]))

\* one round of the handlers expectingArray and expectingObject pass to run:
\* onPass stores the value, onFail stores the reason
RECURSIVE Reason(_, _)
Reason(cs, i) ==
  IF i > Len(cs) THEN <<>>
  ELSE IF cs[i].handler = "onFail" THEN <<cs[i].arg>> \o Reason(cs, i + 1)
  ELSE Reason(cs, i + 1)

RECURSIVE Pushed(_, _)
Pushed(cs, i) ==
  IF i > Len(cs) THEN <<>>
  ELSE IF cs[i].handler = "onPass" THEN <<cs[i].arg>> \o Pushed(cs, i + 1)
  ELSE Pushed(cs, i + 1)

\* onPass of expectingArray with unshift for push: the values in reverse
RECURSIVE Unshifted(_, _)
Unshifted(cs, i) ==
  IF i > Len(cs) THEN <<>>
  ELSE IF cs[i].handler = "onPass"
       THEN Unshifted(cs, i + 1) \o <<cs[i].arg>>
       ELSE Unshifted(cs, i + 1)

\* the loop of expectingArray with the new value put in front of `values`
RECURSIVE ArrayLoopUnshift(_, _, _, _)
ArrayLoopUnshift(V, d, index, values) ==
  IF ~(index < Len(d.elems))
  THEN pass(ArrayOf("new", values))
  ELSE LET cs == run(V, d.elems[index + 1])
           reason == Reason(cs, 1)
       IN  IF reason # <<>>
           THEN fail(problemWithIndex(
                  [index |-> index, problem |-> reason[Len(reason)]]))
           ELSE ArrayLoopUnshift(V, d, index + 1, Unshifted(cs, 1) \o values)

\* the loop of expectingArray from `index` on, `values` collected so far
RECURSIVE ArrayLoop(_, _, _, _)
ArrayLoop(V, d, index, values) ==
  IF ~(index < Len(d.elems))
  THEN pass(ArrayOf("new", values))
  ELSE LET cs == run(V, d.elems[index + 1])
           reason == Reason(cs, 1)
       IN  IF reason # <<>>
           THEN fail(problemWithIndex(
                  [index |-> index, problem |-> reason[Len(reason)]]))
           ELSE ArrayLoop(V, d, index + 1, values \o Pushed(cs, 1))

\* expectingArray with `values` declared once for the validator, outside the
\* function that is called with the data: a call starts from the values the
\* call before left
expectingArrayHoisted(V, d) ==
  IF InstanceofArray(d)
  THEN ArrayLoop(V, d, 0,
                 IF ExpectArray(V) \in DOMAIN kept
                 THEN kept[ExpectArray(V)].values ELSE <<>>)
  ELSE fail(expectation([actual |-> typeOf(d), expected |-> "array"]))

\* expectingArray with its loop starting at index 1
expectingArrayFromOne(V, d) ==
  IF InstanceofArray(d)
  THEN ArrayLoop(V, d, 1, <<>>)
  ELSE fail(expectation([actual |-> typeOf(d), expected |-> "array"]))

expectingArray(V, d) ==
  IF InstanceofArray(d)
  THEN ArrayLoop(V, d, 0, <<>>)
  ELSE fail(expectation([actual |-> typeOf(d), expected |-> "array"]))

\* expectingOptional tolerating only an absent value
expectingOptionalStrict(V, d) ==
  LET cs == run(V, d)
  IN  IF cs[1].handler = "onPass" THEN pass(cs[1].arg)
      ELSE IF d = Undefined THEN pass(Undefined)
      ELSE fail(cs[1].arg)

\* expectingOptional answering null for undefined
expectingOptionalNull(V, d) ==
  LET cs == run(V, d)
  IN  IF cs[1].handler = "onPass" THEN pass(cs[1].arg) ELSE pass(Null)

expectingOptional(V, d) ==
  LET cs == run(V, d)
  IN  IF cs[1].handler = "onPass" THEN pass(cs[1].arg) ELSE pass(Undefined)

RECURSIVE StoreAll(_, _, _, _)
StoreAll(obj, key, cs, i) ==
  IF i > Len(cs) THEN obj
  ELSE IF cs[i].handler = "onPass"
       THEN StoreAll(SetProp(obj, key, cs[i].arg), key, cs, i + 1)
       ELSE StoreAll(obj, key, cs, i + 1)

\* the loop of expectingObject over the keys `keys` still to visit
RECURSIVE ObjectLoop(_, _, _, _)
ObjectLoop(fields, d, keys, obj) ==
  IF keys = <<>>
  THEN pass(obj)
  ELSE LET key == Head(keys)
           cs == run(FieldValidator(fields, key), GetProp(d, key))
           reason == Reason(cs, 1)
       IN  IF reason # <<>>
           THEN fail(problemWithField(
                  [field |-> key, problem |-> reason[Len(reason)]]))
           ELSE ObjectLoop(fields, d, Tail(keys), StoreAll(obj, key, cs, 1))

\* expectingObject without `|| data === null` in its guard
expectingObjectNoNullCheck(fields, d) ==
  IF TypeofJS(d) # "object"
  THEN fail(expectation([actual |-> typeOf(d), expected |-> "object"]))
  ELSE ObjectLoop(fields, d, ForInKeys(fields), ObjectOf("new", <<>>))

\* expectingObject reporting `typeof data` for Utils.typeOf(data)
expectingObjectTypeof(fields, d) ==
  IF TypeofJS(d) # "object" \/ d = Null
  THEN fail(expectation([actual |-> TypeofJS(d), expected |-> "object"]))
  ELSE ObjectLoop(fields, d, ForInKeys(fields), ObjectOf("new", <<>>))

\* expectingObject filling the input object instead of a new one
expectingObjectInPlace(fields, d) ==
  IF TypeofJS(d) # "object" \/ d = Null
  THEN fail(expectation([actual |-> typeOf(d), expected |-> "object"]))
  ELSE ObjectLoop(fields, d, ForInKeys(fields), d)

expectingObject(fields, d) ==
  IF TypeofJS(d) # "object" \/ d = Null
  THEN fail(expectation([actual |-> typeOf(d), expected |-> "object"]))
  ELSE ObjectLoop(fields, d, ForInKeys(fields), ObjectOf("new", <<>>))

toResult(V, d) ==
  CASE V.kind \in {"boolean", "number", "string"} -> expecting(V.kind, d)
    [] V.kind = "null" -> expectingNull(d)
    [] V.kind = "array" -> expectingArray(V.child[1], d)
    [] V.kind = "optional" -> expectingOptional(V.child[1], d)
    [] V.kind = "object" -> expectingObject(V.fields, d)

(* ------------------ the calls a validator makes ----------------------- *)

\* whether the loop of an array or object validator was entered: the loops
\* answer with pass or with a problem of a field or an index, the guards in
\* front of them with an expectation
LoopRan(result) ==
  result.kind = "pass" \/ result.reason.kind # "expectation"

\* the loop of expectingArray without its `if (reason) return`
RECURSIVE ArrayVisitsNoReturn(_, _, _)
ArrayVisitsNoReturn(V, d, index) ==
  IF ~(index < Len(d.elems))
  THEN <<>>
  ELSE LET cs == run(V, d.elems[index + 1])
           reason == Reason(cs, 1)
       IN  <<[index |-> index, validator |-> V,
              data |-> d.elems[index + 1], passed |-> reason = <<>>]>>
             \o ArrayVisitsNoReturn(V, d, index + 1)

\* the calls validator.run(data[index], ...) the loop of expectingArray
\* makes from `index` on, in the order it makes them
RECURSIVE ArrayVisits(_, _, _)
ArrayVisits(V, d, index) ==
  IF ~(index < Len(d.elems))
  THEN <<>>
  ELSE LET cs == run(V, d.elems[index + 1])
           reason == Reason(cs, 1)
           visit == [index |-> index, validator |-> V,
                     data |-> d.elems[index + 1], passed |-> reason = <<>>]
       IN  IF reason # <<>>
           THEN <<visit>>
           ELSE <<visit>> \o ArrayVisits(V, d, index + 1)

\* the calls fields[key].run(data[key], ...) the loop of expectingObject
\* makes over the keys `keys` still to visit, in the order it makes them
RECURSIVE ObjectVisits(_, _, _)
ObjectVisits(fields, d, keys) ==
  IF keys = <<>>
  THEN <<>>
  ELSE LET key == Head(keys)
           cs == run(FieldValidator(fields, key), GetProp(d, key))
           reason == Reason(cs, 1)
           visit == [field |-> key, validator |-> FieldValidator(fields, key),
                     data |-> GetProp(d, key), passed |-> reason = <<>>]
       IN  IF reason # <<>>
           THEN <<visit>>
           ELSE <<visit>> \o ObjectVisits(fields, d, Tail(keys))

\* the calls of child validators one call of toResult makes itself
Visits(V, d) ==
  LET result == toResult(V, d)
  IN  CASE V.kind = "array" /\ LoopRan(result) ->
             ArrayVisits(V.child[1], d, 0)
        [] V.kind = "object" /\ LoopRan(result) ->
             ObjectVisits(V.fields, d, ForInKeys(V.fields))
        [] V.kind = "optional" ->
             <<[validator |-> V.child[1], data |-> d,
                passed |-> worksWith(V.child[1], d)]>>
        [] OTHER -> <<>>

\* every call of a validator that one call of V on d leads to, V's own
\* first, in the order they are made; depth counts the calls on the stack
RECURSIVE Invocations(_, _, _)
RECURSIVE InvokedBy(_, _, _)
Invocations(V, d, depth) ==
  <<[validator |-> V, data |-> d, depth |-> depth]>>
    \o InvokedBy(Visits(V, d), 1, depth + 1)

InvokedBy(vs, i, depth) ==
  IF i > Len(vs) THEN <<>>
  ELSE Invocations(vs[i].validator, vs[i].data, depth)
         \o InvokedBy(vs, i + 1, depth)

\* whether the call ends in a thrown error: nothing in the validators throws
\* but a read of a property of null or undefined
Throws(V, d) ==
  \E i \in 1..Len(Invocations(V, d, 0)) :
    Invocations(V, d, 0)[i].data = TypeError

\* the position of `key` in the sequence `keys`
KeyIndex(keys, key) == CHOOSE i \in 1..Len(keys) : keys[i] = key

\* the locals `values`, `reason` and `obj` as a call of an array or object
\* validator that entered its loop leaves them when it returns
Locals(V, d) ==
  LET result == toResult(V, d)
  IN  IF V.kind = "array"
      THEN IF result.kind = "pass"
           THEN [values |-> result.value.elems, reason |-> <<>>,
                 obj |-> Undefined]
           ELSE [values |->
                   ArrayLoop(V.child[1],
                             ArrayOf(d.ref,
                                     SubSeq(d.elems, 1,
                                            result.reason.data.index)),
                             0, <<>>).value.elems,
                 reason |-> <<result.reason.data.problem>>,
                 obj |-> Undefined]
      ELSE IF result.kind = "pass"
           THEN [values |-> <<>>, reason |-> <<>>, obj |-> result.value]
           ELSE LET keys == ForInKeys(V.fields)
                    n == KeyIndex(keys, result.reason.data.field)
                IN  [values |-> <<>>,
                     reason |-> <<result.reason.data.problem>>,
                     obj |-> ObjectLoop(V.fields, d, SubSeq(keys, 1, n - 1),
                                        ObjectOf("new", <<>>)).value]

\* the locals every validator was left with, after the calls invs[i..]
RECURSIVE Keep(_, _, _)
Keep(heap, invs, i) ==
  IF i > Len(invs) THEN heap
  ELSE LET V == invs[i].validator
       IN  IF V.kind \in {"array", "object"}
                /\ LoopRan(toResult(V, invs[i].data))
           THEN Keep([v \in DOMAIN heap \cup {V} |->
                        IF v = V THEN Locals(V, invs[i].data) ELSE heap[v]],
                     invs, i + 1)
           ELSE Keep(heap, invs, i + 1)

(* ------------------- the caller: handlers and inputs ------------------ *)

\* the handlers of the caller: each answers with its own status and what it
\* was given
onPass(value) == [status |-> 200, body |-> value]

onFail(reason) == [status |-> 400, body |-> reason]

\* what run returns: the result of the handler whose call is returned
Handled(call) ==
  IF call.handler = "onPass" THEN onPass(call.arg) ELSE onFail(call.arg)

SeqsUpTo(S, n) == UNION {[1..k -> S] : k \in 0..n}

\* sequences without a repeated key
DistinctKeys(s) ==
  \A i, j \in 1..Len(s) : s[i].key = s[j].key => i = j

True == Scalar("boolean", "true")

False == Scalar("boolean", "false")

Zero == Scalar("number", "0")

Twelve == Scalar("number", "12")

TwelveText == Scalar("string", "12")

Scalars == {True, False, Zero, Twelve, TwelveText, Null, Undefined}

InputKeys == {"a", "0"}

\* arrays and objects that occur inside input arrays and objects
Nested ==
  {ArrayOf("in", <<Twelve>>),
   ObjectOf("in", <<[key |-> "a", value |-> Twelve]>>)}

ArrayElems == {Twelve, TwelveText, Null} \cup Nested

PropValues == {Twelve, TwelveText} \cup Nested

InputArrays == {ArrayOf("in", s) : s \in SeqsUpTo(ArrayElems, MaxLen)}

InputObjects ==
  {ObjectOf("in", s) :
     s \in {t \in SeqsUpTo([key : InputKeys, value : PropValues],
                           Cardinality(InputKeys)) :
              DistinctKeys(t)}}

Inputs == Scalars \cup InputArrays \cup InputObjects

Primitives == {ExpectBoolean, ExpectNumber, ExpectString, ExpectNull}

FieldNames == {"a", "0", "1", "constructor"}

\* the validators declared for fields
FieldValidators ==
  {ExpectNumber, ExpectArray(ExpectNumber), ExpectOptional(ExpectNumber)}

FieldsDescriptors ==
  {f \in SeqsUpTo([key : FieldNames, validator : FieldValidators], MaxFields) :
     DistinctKeys(f)}

ObjectValidators == {ExpectObject(f) : f \in FieldsDescriptors}

\* object validators declaring one field at most
SmallObjectValidators ==
  {ExpectObject(f) : f \in {g \in FieldsDescriptors : Len(g) <= 1}}

\* object validators whose one field is declared with an object validator
NestedObjectValidators ==
  {ExpectObject(<<[key |-> k, validator |-> v]>>) :
     k \in FieldNames, v \in SmallObjectValidators}

\* children of the array and optional validators
Children ==
  Primitives
    \cup {ExpectArray(ExpectNumber), ExpectOptional(ExpectNumber)}
    \cup SmallObjectValidators

Validators ==
  Primitives \cup ObjectValidators \cup NestedObjectValidators
    \cup {ExpectArray(v) : v \in Children}
    \cup {ExpectOptional(v) : v \in Children}

\* a validator shared as the child of others
NumberList == ExpectArray(ExpectNumber)

\* validators a caller uses one after the other
CallValidators ==
  {NumberList,
   ExpectArray(NumberList),
   ExpectOptional(NumberList),
   ExpectObject(<<[key |-> "a", validator |-> NumberList]>>)}

\* inputs a caller gives them
CallInputs ==
  {ArrayOf("in", <<Twelve>>),
   ArrayOf("in", <<Twelve, TwelveText>>),
   ArrayOf("in", <<ArrayOf("in", <<Twelve>>)>>),
   ObjectOf("in", <<[key |-> "a", value |-> ArrayOf("in", <<Twelve>>)]>>),
   ObjectOf("in", <<[key |-> "a",
                     value |-> ArrayOf("in", <<Twelve, TwelveText>>)]>>)}

(* --------------------------- state machine ---------------------------- *)

NoReturn == [status |-> 0, body |-> Undefined]

Init ==
  /\ validator \in Validators
  /\ data \in Inputs
  /\ pc = "idle"
  /\ op = "none"
  /\ calls = <<>>
  /\ returned = NoReturn
  /\ answer = FALSE
  /\ rendered = ""
  /\ visits = <<>>
  /\ kept = <<>>
  /\ first = <<>>
  /\ ncalls = 0

\* validator.run(data, {onPass, onFail})
Run ==
  /\ pc = "idle"
  /\ IF Throws(validator, data)
     THEN /\ calls' = <<>>
          /\ returned' = NoReturn
          /\ pc' = "thrown"
     ELSE /\ calls' = run(validator, data)
          /\ returned' = Handled(calls'[1])
          /\ pc' = "done"
  /\ visits' = Visits(validator, data)
  /\ kept' = Keep(kept, Invocations(validator, data, 0), 1)
  /\ first' = IF first = <<>>
              THEN <<[op |-> "run", validator |-> validator, data |-> data,
                      calls |-> calls', returned |-> returned',
                      answer |-> FALSE]>>
              ELSE first
  /\ ncalls' = ncalls + 1
  /\ op' = "run"
  /\ UNCHANGED <<validator, data, answer, rendered>>

\* validator.worksWith(data)
WorksWith ==
  /\ pc = "idle"
  /\ IF Throws(validator, data)
     THEN /\ answer' = answer
          /\ pc' = "thrown"
     ELSE /\ answer' = worksWith(validator, data)
          /\ pc' = "done"
  /\ visits' = Visits(validator, data)
  /\ kept' = Keep(kept, Invocations(validator, data, 0), 1)
  /\ first' = IF first = <<>>
              THEN <<[op |-> "worksWith", validator |-> validator,
                      data |-> data, calls |-> <<>>, returned |-> NoReturn,
                      answer |-> answer']>>
              ELSE first
  /\ ncalls' = ncalls + 1
  /\ op' = "worksWith"
  /\ UNCHANGED <<validator, data, calls, returned, rendered>>

\* the caller renders the reason onFail was given: Problem.toString(reason)
Render ==
  /\ pc = "done"
  /\ op = "run"
  /\ calls[1].handler = "onFail"
  /\ rendered' = toString(calls[1].arg)
  /\ pc' = "rendered"
  /\ UNCHANGED <<validator, data, op, calls, returned, answer, visits,
                 kept, first, ncalls>>

Next == Run \/ WorksWith \/ Render

Spec == Init /\ [][Next]_vars

\* the caller, done with one call, takes a validator and an input for the
\* next
Again ==
  /\ pc \in {"done", "thrown"}
  /\ ncalls < MaxCalls
  /\ validator' \in CallValidators
  /\ data' \in CallInputs
  /\ pc' = "idle"
  /\ op' = "none"
  /\ calls' = <<>>
  /\ returned' = NoReturn
  /\ answer' = FALSE
  /\ visits' = <<>>
  /\ UNCHANGED <<rendered, kept, first, ncalls>>

CallsInit ==
  /\ validator \in CallValidators
  /\ data \in CallInputs
  /\ pc = "idle"
  /\ op = "none"
  /\ calls = <<>>
  /\ returned = NoReturn
  /\ answer = FALSE
  /\ rendered = ""
  /\ visits = <<>>
  /\ kept = <<>>
  /\ first = <<>>
  /\ ncalls = 0

CallsNext == Run \/ WorksWith \/ Again

\* calls of run and worksWith one after the other, on validators that share
\* a child
CallsSpec == CallsInit /\ [][CallsNext]_vars

(* ------------------------------- claims ------------------------------- *)

RunDone == pc = "done" /\ op = "run"

WorksWithDone == pc = "done" /\ op = "worksWith"

ProblemKinds == {"expectation", "field", "index"}

\* C1: a primitive validator works with a value exactly when the type name
\* of the value (typeOf) is the name the validator expects; undefined works
\* with no primitive and no value works with two primitives.
C1_PrimitiveIffTypeName ==
  /\ (WorksWithDone /\ validator \in Primitives)
       => (answer <=> typeOf(data) = validator.kind)
  /\ (WorksWithDone /\ validator \in Primitives /\ data = Undefined)
       => ~answer
  /\ \A P, Q \in Primitives :
       (worksWith(P, data) /\ worksWith(Q, data)) => P = Q

C1_Witness ==
  /\ WorksWithDone
  /\ validator = ExpectNull
  /\ data = Null
  /\ answer

\* C2: run invokes exactly one handler, once, and returns what that handler
\* returned; the handler is onPass exactly when worksWith is true, and
\* onFail is given the Problem.
C2_ExactlyOneHandler ==
  RunDone =>
    LET result == toResult(validator, data)
    IN  /\ Len(calls) = 1
        /\ worksWith(validator, data) =>
             /\ calls[1] = [handler |-> "onPass", arg |-> result.value]
             /\ returned = onPass(result.value)
        /\ ~worksWith(validator, data) =>
             /\ calls[1] = [handler |-> "onFail", arg |-> result.reason]
             /\ returned = onFail(result.reason)
             /\ result.reason.kind \in ProblemKinds

C2_Witness ==
  /\ RunDone
  /\ validator.kind = "array"
  /\ validator.child[1].kind = "object"
  /\ Len(calls) = 1
  /\ calls[1].handler = "onFail"
  /\ returned.status = 400

\* C3: on every input that is not a non-null, non-array object, an object
\* validator fails with Expectation{expected: 'object', actual: typeOf(d)};
\* an array input fails with actual 'array'.
C3_ObjectRejectsNonObjects ==
  (RunDone /\ validator.kind = "object" /\ data.t # "object") =>
    calls = <<[handler |-> "onFail",
               arg |-> expectation([actual |-> typeOf(data),
                                    expected |-> "object"])]>>

\* the position of a declared key in the fields descriptor
Position(fields, key) == CHOOSE i \in 1..Len(fields) : fields[i].key = key

\* whether the validator declared for `key` rejects data[key]
Rejects(fields, d, key) ==
  ~worksWith(FieldValidator(fields, key), GetProp(d, key))

\* the same object with its own properties in the opposite order
Reversed(d) ==
  [d EXCEPT !.props = [i \in 1..Len(d.props) |-> d.props[Len(d.props) + 1 - i]]]

\* C4 as the spec states it: an object validator fails on the earliest field,
\* in the order the descriptor declares the fields, whose validator fails.
C4_FirstFailureInDeclarationOrder ==
  (RunDone /\ validator.kind = "object" /\ data.t = "object") =>
    \A k \in KeysOf(validator.fields) :
      ( /\ Rejects(validator.fields, data, k)
        /\ \A j \in KeysOf(validator.fields) :
             Position(validator.fields, j) < Position(validator.fields, k)
               => ~Rejects(validator.fields, data, j) )
      => calls = <<[handler |-> "onFail",
                    arg |-> problemWithField(
                      [field |-> k,
                       problem |-> toResult(FieldValidator(validator.fields, k),
                                            GetProp(data, k)).reason])]>>

\* key j is visited before key k by a for-in loop over the descriptor:
\* array-index keys come first, in ascending numeric order, and the other
\* keys follow in the order the descriptor declares them
VisitedBefore(fields, j, k) ==
  IF IndexOf(j) >= 0
  THEN IndexOf(k) < 0 \/ IndexOf(j) < IndexOf(k)
  ELSE IndexOf(k) < 0 /\ Position(fields, j) < Position(fields, k)

\* C4 (amended): on an object input on which a declared field's validator
\* fails, an object validator fails with FieldProblem{field: k, inner: p},
\* k the earliest failing field in the for-in order of the descriptor
\* (array-index names in ascending numeric order, then the other names in
\* declaration order) and p that validator's Problem for input[k]; the key
\* order of the input object does not matter.
C4_FirstFailureInForInOrder ==
  (RunDone /\ validator.kind = "object" /\ data.t = "object") =>
    /\ \A k \in KeysOf(validator.fields) :
         ( /\ Rejects(validator.fields, data, k)
           /\ \A j \in KeysOf(validator.fields) :
                VisitedBefore(validator.fields, j, k)
                  => ~Rejects(validator.fields, data, j) )
         => calls = <<[handler |-> "onFail",
                       arg |-> problemWithField(
                         [field |-> k,
                          problem |->
                            toResult(FieldValidator(validator.fields, k),
                                     GetProp(data, k)).reason])]>>
    /\ run(validator, Reversed(data)) = calls

\* two fields fail, the failing index-named field is declared last and is
\* the one reported; the input lists its keys in the opposite order
C4_Witness ==
  /\ RunDone
  /\ validator = ExpectObject(<<[key |-> "a", validator |-> ExpectNumber],
                                [key |-> "0", validator |-> ExpectNumber]>>)
  /\ data = ObjectOf("in", <<[key |-> "a", value |-> TwelveText],
                             [key |-> "0", value |-> TwelveText]>>)
  /\ calls[1].handler = "onFail"
  /\ calls[1].arg.data.field = "0"

\* C5: a declared field absent from an object input is validated as
\* undefined: a primitive, array or object validator fails the object, with
\* FieldProblem{field: k, inner: Expectation{expected: its name, actual:
\* 'undefined'}} when k is the field reported, and an optional validator
\* does not fail the object on k.
C5_AbsentFieldIsUndefined ==
  (RunDone /\ validator.kind = "object" /\ data.t = "object") =>
    \A k \in KeysOf(validator.fields) \ KeysOf(data.props) :
      LET V == FieldValidator(validator.fields, k)
      IN  /\ V.kind # "optional" =>
               /\ calls[1].handler = "onFail"
               /\ calls[1].arg.data.field = k =>
                    calls[1].arg.data.problem =
                      expectation([actual |-> "undefined", expected |-> V.kind])
          /\ V.kind = "optional" =>
               (calls[1].handler = "onFail" => calls[1].arg.data.field # k)

\* the input object without the own properties the descriptor does not declare
WithoutUndeclared(fields, d) ==
  [d EXCEPT !.props = SelectSeq(d.props, LAMBDA p : p.key \in KeysOf(fields))]

\* C6: when an object validator passes, onPass is given a newly built object
\* whose keys are exactly the declared field names, each holding the value
\* its field validator produced; undeclared keys of the input are not in the
\* output and change nothing of the outcome.
C6_OutputHasExactlyDeclaredFields ==
  (RunDone /\ validator.kind = "object") =>
    /\ calls[1].handler = "onPass" =>
         LET out == calls[1].arg
         IN  /\ out.t = "object"
             /\ out.ref = "new"
             /\ KeysOf(out.props) = KeysOf(validator.fields)
             /\ Len(out.props) = Len(validator.fields)
             /\ \A k \in KeysOf(validator.fields) :
                  OwnValue(out.props, k) =
                    toResult(FieldValidator(validator.fields, k),
                             GetProp(data, k)).value
    /\ data.t = "object" =>
         run(validator, WithoutUndeclared(validator.fields, data)) = calls

C6_Witness ==
  /\ RunDone
  /\ validator = ExpectObject(<<[key |-> "a", validator |-> ExpectNumber]>>)
  /\ KeysOf(data.props) = {"a", "0"}
  /\ calls[1].handler = "onPass"
  /\ KeysOf(calls[1].arg.props) = {"a"}

\* the indexes (from 0) of the elements the child validator rejects
RejectedIndexes(V, d) ==
  {i \in 0..(Len(d.elems) - 1) : ~worksWith(V, d.elems[i + 1])}

Least(S) == CHOOSE i \in S : \A j \in S : i <= j

\* C7: an array validator fails on a value that is no array with
\* Expectation{expected: 'array', actual: typeOf(d)}, and on an array with a
\* rejected element with IndexProblem{index: i, inner: p}, i the smallest
\* index whose element the child rejects and p the child's Problem for it.
C7_ArrayFailures ==
  (RunDone /\ validator.kind = "array") =>
    LET V == validator.child[1]
    IN  /\ ~InstanceofArray(data) =>
             calls = <<[handler |-> "onFail",
                        arg |-> expectation([actual |-> typeOf(data),
                                             expected |-> "array"])]>>
        /\ (InstanceofArray(data) /\ RejectedIndexes(V, data) # {}) =>
             LET i == Least(RejectedIndexes(V, data))
             IN  /\ 0 <= i /\ i < Len(data.elems)
                 /\ calls = <<[handler |-> "onFail",
                               arg |-> problemWithIndex(
                                 [index |-> i,
                                  problem |->
                                    toResult(V, data.elems[i + 1]).reason])]>>

\* both elements are rejected, the first one is reported
C7_Witness ==
  /\ RunDone
  /\ validator = ExpectArray(ExpectNumber)
  /\ data = ArrayOf("in", <<TwelveText, Null>>)
  /\ calls[1].handler = "onFail"
  /\ calls[1].arg.kind = "index"
  /\ calls[1].arg.data.index = 0

\* C8: on an array all of whose elements the child accepts, an array
\* validator passes with a newly built array of the same length, holding at
\* each index the value the child produced for the element at that index;
\* the empty array passes with an empty array under every child.
C8_ArrayPasses ==
  (RunDone /\ validator.kind = "array" /\ InstanceofArray(data)) =>
    LET V == validator.child[1]
    IN  /\ RejectedIndexes(V, data) = {} =>
             /\ calls[1].handler = "onPass"
             /\ calls[1].arg.t = "array"
             /\ calls[1].arg.ref = "new"
             /\ Len(calls[1].arg.elems) = Len(data.elems)
             /\ \A i \in 1..Len(data.elems) :
                  calls[1].arg.elems[i] = toResult(V, data.elems[i]).value
        /\ data.elems = <<>> =>
             calls = <<[handler |-> "onPass", arg |-> ArrayOf("new", <<>>)]>>

\* two different elements, both accepted
C8_Witness ==
  /\ RunDone
  /\ validator.kind = "array"
  /\ InstanceofArray(data)
  /\ Len(data.elems) = 2
  /\ data.elems[1] # data.elems[2]
  /\ calls[1].handler = "onPass"
  /\ calls[1].arg.elems[1] = data.elems[1]

\* C9: an optional validator passes on every input: worksWith is true, run
\* never invokes onFail, and the value passed is the child's output when the
\* child accepts the input and undefined when it rejects it.
C9_OptionalAlwaysPasses ==
  validator.kind = "optional" =>
    LET V == validator.child[1]
    IN  /\ WorksWithDone => answer
        /\ RunDone =>
             calls = <<[handler |-> "onPass",
                        arg |-> IF worksWith(V, data)
                                THEN toResult(V, data).value
                                ELSE Undefined]>>

\* a malformed nested structure: the child object validator rejects a field
C9_Witness ==
  /\ RunDone
  /\ validator.kind = "optional"
  /\ validator.child[1].kind = "object"
  /\ data.t = "object"
  /\ ~worksWith(validator.child[1], data)
  /\ calls = <<[handler |-> "onPass", arg |-> Undefined]>>

\* a value without the identity of its arrays and objects and without the
\* order of the properties of its objects
RECURSIVE Shape(_)
Shape(d) ==
  [t |-> d.t, v |-> d.v,
   elems |-> [i \in 1..Len(d.elems) |-> Shape(d.elems[i])],
   props |-> {[key |-> d.props[i].key, value |-> Shape(d.props[i].value)] :
                i \in 1..Len(d.props)}]

\* the value the input itself holds for a key: undefined where it has none
Original(d, key) ==
  IF InstanceofArray(d)
  THEN IF IndexOf(key) >= 0 /\ IndexOf(key) < Len(d.elems)
       THEN d.elems[IndexOf(key) + 1]
       ELSE IF key = "length" THEN Scalar("number", NumStr(Len(d.elems)))
       ELSE Undefined
  ELSE IF key \in KeysOf(d.props) THEN OwnValue(d.props, key)
  ELSE Undefined

\* the part of the input a validator accepts, as the spec states it: the
\* declared fields of an object and the elements of an array, each with the
\* value the input holds there
RECURSIVE Accepted(_, _)
Accepted(V, d) ==
  CASE V.kind = "object" ->
         ObjectOf("in", [i \in 1..Len(V.fields) |->
           [key |-> V.fields[i].key,
            value |-> Accepted(V.fields[i].validator,
                               Original(d, V.fields[i].key))]])
    [] V.kind = "array" ->
         ArrayOf("in", [i \in 1..Len(d.elems) |-> Accepted(V.child[1], d.elems[i])])
    [] V.kind = "optional" ->
         IF worksWith(V.child[1], d) THEN Accepted(V.child[1], d) ELSE d
    [] OTHER -> d

\* C10 as the spec states it: the value passed to onPass is structurally
\* equal to the accepted part of the input, every declared field and every
\* element holding the input's original value.
C10_RoundTrip ==
  (RunDone /\ calls[1].handler = "onPass") =>
    Shape(calls[1].arg) = Shape(Accepted(validator, data))

\* the accepted part of the input, with undefined wherever the child of an
\* optional validator rejects the value at its position
RECURSIVE AcceptedOrUndefined(_, _)
AcceptedOrUndefined(V, d) ==
  CASE V.kind = "object" ->
         ObjectOf("in", [i \in 1..Len(V.fields) |->
           [key |-> V.fields[i].key,
            value |-> AcceptedOrUndefined(V.fields[i].validator,
                                          Original(d, V.fields[i].key))]])
    [] V.kind = "array" ->
         ArrayOf("in", [i \in 1..Len(d.elems) |->
           AcceptedOrUndefined(V.child[1], d.elems[i])])
    [] V.kind = "optional" ->
         IF worksWith(V.child[1], d)
         THEN AcceptedOrUndefined(V.child[1], d) ELSE Undefined
    [] OTHER -> d

\* C10 (amended): the value passed to onPass is structurally equal to the
\* accepted part of the input (objects: exactly the declared fields; arrays:
\* same length, order and elements), except that wherever the child of an
\* optional validator rejects the value at its position the output holds
\* undefined instead of the input's value.
C10_RoundTripButOptional ==
  (RunDone /\ calls[1].handler = "onPass") =>
    Shape(calls[1].arg) = Shape(AcceptedOrUndefined(validator, data))

\* an object with a field holding an array and an optional field whose
\* value the child rejects
C10_Witness ==
  /\ RunDone
  /\ validator =
       ExpectObject(<<[key |-> "a", validator |-> ExpectArray(ExpectNumber)],
                      [key |-> "0", validator |-> ExpectOptional(ExpectNumber)]>>)
  /\ data = ObjectOf("in", <<[key |-> "0", value |-> TwelveText],
                             [key |-> "a", value |-> ArrayOf("in", <<Twelve>>)]>>)
  /\ calls[1].handler = "onPass"
  /\ OwnValue(calls[1].arg.props, "0") = Undefined

\* the field and index wrappers of a problem, from the root to the leaf
RECURSIVE Wrappers(_)
Wrappers(problem) ==
  IF problem.kind = "expectation" THEN <<>>
  ELSE <<problem>> \o Wrappers(problem.data.problem)

\* the expectation a chain of wrappers ends in
RECURSIVE Innermost(_)
Innermost(problem) ==
  IF problem.kind = "expectation" THEN problem
  ELSE Innermost(problem.data.problem)

PrefixOf(wrapper) ==
  IF wrapper.kind = "field"
  THEN "Problem with field \"" \o wrapper.data.field \o "\": "
  ELSE "Problem at index \"" \o NumStr(wrapper.data.index) \o "\": "

RECURSIVE Prefixes(_, _)
Prefixes(ws, i) ==
  IF i > Len(ws) THEN "" ELSE PrefixOf(ws[i]) \o Prefixes(ws, i + 1)

C16_ExpectedDiffersFromActual ==
  (RunDone /\ calls[1].handler = "onFail") =>
    LET e == Innermost(calls[1].arg)
    IN  /\ e.kind = "expectation"
        /\ e.data.expected # e.data.actual

\* an object validator, nested in an array validator, is given null
C16_Witness ==
  /\ RunDone
  /\ validator.kind = "array"
  /\ validator.child[1].kind = "object"
  /\ calls[1].handler = "onFail"
  /\ Innermost(calls[1].arg).data =
       [actual |-> "null", expected |-> "object"]

\* a problem is a sound failure path of validator V on the value d: one
\* wrapper for each object or array validator on the way, the field names
\* and indexes leading through the input to a value whose type name is the
\* actual of the innermost expectation, the expected being the name of the
\* validator declared there
RECURSIVE SoundPath(_, _, _)
SoundPath(V, d, problem) ==
  CASE V.kind = "optional" -> FALSE
    [] V.kind = "array" ->
         \/ problem = expectation([actual |-> typeOf(d), expected |-> "array"])
         \/ /\ problem.kind = "index"
            /\ InstanceofArray(d)
            /\ problem.data.index \in 0..(Len(d.elems) - 1)
            /\ SoundPath(V.child[1], d.elems[problem.data.index + 1],
                         problem.data.problem)
    [] V.kind = "object" ->
         \/ problem = expectation([actual |-> typeOf(d), expected |-> "object"])
         \/ /\ problem.kind = "field"
            /\ problem.data.field \in KeysOf(V.fields)
            /\ SoundPath(FieldValidator(V.fields, problem.data.field),
                         Original(d, problem.data.field),
                         problem.data.problem)
    [] OTHER ->
         problem = expectation([actual |-> typeOf(d), expected |-> V.kind])

\* C15: every Problem a validator returns is one chain of field and index
\* wrappers ending in one Expectation, one wrapper per enclosing object or
\* array validator and none for an optional one; following the field names
\* and indexes from the root of the input reaches a value v with the
\* innermost actual equal to typeOf(v) and the innermost expected the name of
\* the validator declared at that position.
C15_FailurePathSound ==
  (RunDone /\ calls[1].handler = "onFail") =>
    SoundPath(validator, data, calls[1].arg)

\* the calls of one call of an array validator: the child on the elements
\* 0, 1, 2, ... in index order, nothing after a failed one, and every
\* element when none failed
ArrayOrder ==
  /\ \A i \in 1..Len(visits) :
       /\ visits[i].index = i - 1
       /\ visits[i].validator = validator.child[1]
       /\ visits[i].data = data.elems[i]
       /\ visits[i].passed <=> worksWith(validator.child[1], data.elems[i])
       /\ i < Len(visits) => visits[i].passed
  /\ Len(visits) <= Len(data.elems)
  /\ Len(visits) < Len(data.elems) => ~visits[Len(visits)].passed

\* the calls of one call of an object validator visit the fields in the
\* order `Before` and stop with the first that fails
ObjectOrder(Before(_, _, _)) ==
  LET fields == validator.fields
  IN  /\ \A i \in 1..Len(visits) :
           /\ visits[i].field \in KeysOf(fields)
           /\ visits[i].validator = FieldValidator(fields, visits[i].field)
           /\ visits[i].passed <=> ~Rejects(fields, data, visits[i].field)
           /\ i < Len(visits) => visits[i].passed
           /\ \A j \in 1..Len(visits) :
                i < j => Before(fields, visits[i].field, visits[j].field)
           /\ \A k \in KeysOf(fields) :
                Before(fields, k, visits[i].field)
                  => \E j \in 1..(i - 1) : visits[j].field = k
      /\ Len(visits) <= Len(fields)
      /\ Len(visits) < Len(fields) => ~visits[Len(visits)].passed

\* key j is declared before key k
DeclaredBefore(fields, j, k) == Position(fields, j) < Position(fields, k)

\* the object or array validator has run its loop
LoopDone(kind) ==
  /\ RunDone
  /\ validator.kind = kind
  /\ LoopRan(toResult(validator, data))

\* C14 as the spec states it: one call of an object validator invokes the
\* validators of the fields in the order the descriptor declares them and
\* none after the first that fails; an array validator invokes its child on
\* the elements in index order and on none after the first that fails.
C14_ShortCircuitInDeclaredOrder ==
  /\ LoopDone("object") => ObjectOrder(DeclaredBefore)
  /\ LoopDone("array") => ArrayOrder

\* C14 (amended): one call of an object validator invokes the validators of
\* the fields in the for-in order of the descriptor (array-index names in
\* ascending numeric order, then the other names in declaration order), each
\* once, and none after the first that fails; an array validator invokes its
\* child on the elements 0, 1, 2, ... in index order and on none after the
\* first that fails.
C14_ShortCircuitInForInOrder ==
  /\ LoopDone("object") => ObjectOrder(VisitedBefore)
  /\ LoopDone("array") => ArrayOrder

\* field "0", declared last, is visited first and passes; field "a",
\* declared first, is visited after it and fails
C14_Witness ==
  /\ RunDone
  /\ validator = ExpectObject(<<[key |-> "a", validator |-> ExpectNumber],
                                [key |-> "0", validator |-> ExpectNumber]>>)
  /\ Len(visits) = 2
  /\ visits[1].field = "0"
  /\ visits[1].passed
  /\ visits[2].field = "a"
  /\ ~visits[2].passed

\* how deep the validators of a validator nest
RECURSIVE Depth(_)
Depth(V) ==
  CASE V.kind \in {"array", "optional"} -> 1 + Depth(V.child[1])
    [] V.kind = "object" /\ V.fields # <<>> ->
         LET below == {Depth(V.fields[i].validator) : i \in 1..Len(V.fields)}
         IN  1 + (CHOOSE m \in below : \A n \in below : n <= m)
    [] OTHER -> 0

\* one of the three kinds of Problem, and so is every problem inside it
RECURSIVE IsProblem(_)
IsProblem(problem) ==
  CASE problem.kind = "expectation" ->
         DOMAIN problem.data = {"actual", "expected"}
    [] problem.kind = "field" ->
         /\ DOMAIN problem.data = {"field", "problem"}
         /\ IsProblem(problem.data.problem)
    [] problem.kind = "index" ->
         /\ DOMAIN problem.data = {"index", "problem"}
         /\ IsProblem(problem.data.problem)
    [] OTHER -> FALSE

\* C13: on every input, whatever its shape, run and worksWith end without a
\* thrown error after calls nested no deeper than the validator is; run
\* reports a Pass or a Fail value through one handler, worksWith answers
\* with a boolean, and a failure is one of the three kinds of Problem.
C13_TotalAndTerminating ==
  /\ pc # "thrown"
  /\ ~Throws(validator, data)
  /\ toResult(validator, data).kind \in {"pass", "fail"}
  /\ \A i \in 1..Len(Invocations(validator, data, 0)) :
       Invocations(validator, data, 0)[i].depth <= Depth(validator)
  /\ RunDone =>
       /\ Len(calls) = 1
       /\ calls[1].handler \in {"onPass", "onFail"}
       /\ calls[1].handler = "onFail" => IsProblem(calls[1].arg)
       /\ returned # NoReturn
  /\ WorksWithDone =>
       (answer \in BOOLEAN /\ answer = (toResult(validator, data).kind = "pass"))

\* an object validator with two fields is run on null
C13_Witness ==
  /\ RunDone
  /\ validator.kind = "object"
  /\ Len(validator.fields) = 2
  /\ data = Null
  /\ calls = <<[handler |-> "onFail",
                arg |-> expectation([actual |-> "null",
                                     expected |-> "object"])]>>

\* the call just made is of the validator and on the input of the first call
SameAsFirst ==
  /\ pc = "done"
  /\ ncalls > 1
  /\ validator = first[1].validator
  /\ data = first[1].data

====
